---- MODULE Spec2Model ----
(***************************************************************************)
(* Model of weblate/formats/convert.py: the convert-based file formats     *)
(* (ConvertFormat and its HTML, OpenDocument, IDML and Windows RC          *)
(* subclasses) and their unit adapters.                                    *)
(***************************************************************************)
EXTENDS Integers, Sequences, FiniteSets, TLC

\* ------------------------------------------------------------------ bounds

\* Longest unit sequence a converter returns.
MaxUnits == 2

\* Longest byte sequence a file holds or save_content writes.
MaxBytes == 2

\* Longest text (in characters) the RC serializer returns.
MaxTextLen == 2

\* Longest location string, and the most locations a unit has.
MaxLocLen == 3
MaxLocations == 2

\* The most story entries of an IDML package, and the most units of a story.
MaxStories == 2
MaxStoryUnits == 2

VARIABLES
    cls,        \* the format class the operations are called on
    parsed,     \* what cls.convertfile extracts from the bytes of the existing file
    store,      \* the store kept from the last load that returned
    handle,     \* the file object the last load worked on
    last,       \* the last call: its arguments and how it ended
    dest,       \* save: the destination file (self.storefile) on disk
    temp,       \* save: the temporary file of the atomic write
    output,     \* save: the bytes save_content produces for the edited store
    sv_handle,  \* save: the file the handle given to save_content writes to
    sv_before,  \* save: the destination as it was when save was called
    sv_pc,      \* save: where the running save is
    fs,         \* create_new_file: the files on disk, by path
    fs_before,  \* create_new_file: the files on disk when it was called
    nw_last,    \* create_new_file: the last call and how it ended
    rc_file,    \* Windows RC: the parsed input kept as store.rcfile
    rc_text,    \* Windows RC: the text the last save_content had to encode
    rc_tags,    \* Windows RC: the language tags the last save_content used
    rc_writes,  \* Windows RC: the writes of the last save_content to its handle
    rc_pc,      \* Windows RC: how the last save_content ended
    unit_class, \* unit adapter: the class of the unit
    locations,  \* unit adapter: mainunit.getlocations()
    ctx,        \* unit adapter: the last access of context
    stories,    \* IDML: the story entries of the package, in order
    idml_store  \* IDML: the store of the last load

load_vars == <<cls, parsed, store, handle, last>>
save_vars == <<dest, temp, output, sv_handle, sv_before, sv_pc>>
new_vars == <<fs, fs_before, nw_last>>
rc_vars == <<rc_file, rc_text, rc_tags, rc_writes, rc_pc>>
ctx_vars == <<unit_class, locations, ctx>>
idml_vars == <<stories, idml_store>>

vars == <<load_vars, save_vars, new_vars, rc_vars, ctx_vars, idml_vars>>

not_load == <<save_vars, new_vars, rc_vars, ctx_vars, idml_vars>>
not_save == <<load_vars, new_vars, rc_vars, ctx_vars, idml_vars>>
not_new == <<load_vars, save_vars, rc_vars, ctx_vars, idml_vars>>
not_rc == <<load_vars, save_vars, new_vars, ctx_vars, idml_vars>>
not_ctx == <<load_vars, save_vars, new_vars, rc_vars, idml_vars>>
not_idml == <<load_vars, save_vars, new_vars, rc_vars, ctx_vars>>

\* ----------------------------------------------------------- class layout

Formats == {"ConvertFormat", "HTMLFormat", "OpenDocumentFormat", "IDMLFormat",
            "WindowsRCFormat"}

\* The methods each class body defines itself.
ClassDefines(c) ==
    CASE c = "ConvertFormat" ->
            {"save_content", "save", "convertfile", "load", "create_new_file",
             "is_valid_base_for_new", "get_class", "add_unit", "create_unit"}
      [] c = "HTMLFormat" ->
            {"convertfile", "save_content", "mimetype", "extension"}
      [] c = "OpenDocumentFormat" ->
            {"convertfile", "save_content", "mimetype", "extension"}
      [] c = "IDMLFormat" ->
            {"convertfile", "save_content", "mimetype", "extension"}
      [] c = "WindowsRCFormat" ->
            {"mimetype", "extension", "get_class", "convertfile", "save_content"}

\* Python attribute lookup: the class itself, then its base ConvertFormat.
Resolve(c, method) ==
    IF method \in ClassDefines(c) THEN c ELSE "ConvertFormat"

\* ------------------------------------------------------------------ units

Sources == {"a", "b"}
GivenTargets == {"x"}

\* The structured (inline markup) form of a text, as the converters build it.
Rich(text) == <<text>>

\* A unit as a converter returns it: the rich forms are those of its texts.
Units == {[source |-> s, target |-> t, rich_source |-> Rich(s),
           rich_target |-> Rich(t), header |-> h] :
          s \in Sources, t \in GivenTargets, h \in BOOLEAN}

UnitSeqs == UNION {[1..n -> Units] : n \in 0..MaxUnits}

\* The file on disk either converts to a unit sequence or makes the converter raise.
Parses == [ok : {TRUE}, units : UnitSeqs] \cup [ok : {FALSE}, units : {<<>>}]

NoStore == [loaded |-> FALSE, units |-> <<>>]
NoHandle == [owner |-> "none", open |-> FALSE]

\* What load can be given: the path of the existing file, a path that names no
\* file, or a file object the caller has opened on the existing file.
StoreFiles == {"path", "nopath", "handle"}

hasattr_read(storefile) == storefile = "handle"

\* ------------------------------------------------------------------ files

Bytes == {1, 2}
ByteSeqs == UNION {[1..n -> Bytes] : n \in 0..MaxBytes}

NoFile == [exists |-> FALSE, bytes |-> <<>>]
Files == {NoFile} \cup [exists : {TRUE}, bytes : ByteSeqs]

\* ------------------------------------------------------------ ConvertFormat

\* cls.convertfile(storefile): the base class raises, a format converts the file.
convertfile(c, p) ==
    IF Resolve(c, "convertfile") = "ConvertFormat"
    THEN [outcome |-> "raise", exc |-> "NotImplementedError", units |-> <<>>]
    ELSE IF ~p.ok
    THEN [outcome |-> "raise", exc |-> "ParseError", units |-> <<>>]
    ELSE [outcome |-> "return", exc |-> "", units |-> p.units]

\* A mutant of the loop of load: the rich target is left as converted.
load_units_plain_only(units) ==
    [i \in DOMAIN units |->
        IF units[i].header THEN units[i]
        ELSE [units[i] EXCEPT !.target = units[i].source]]

\* The loop of load: every unit that is no header gets its source as target.
load_units(units) ==
    [i \in DOMAIN units |->
        IF units[i].header THEN units[i]
        ELSE [units[i] EXCEPT !.target = units[i].source,
                              !.rich_target = units[i].rich_source]]

\* load(storefile) as a function of its inputs: how it ends, the store it
\* returns and who opened the file object it worked on.
load_result(c, storefile, p) ==
    IF ~hasattr_read(storefile) /\ storefile = "nopath"
    THEN [outcome |-> "raise", exc |-> "FileNotFoundError", units |-> <<>>,
          owner |-> "none"]
    ELSE LET owner == IF hasattr_read(storefile) THEN "caller" ELSE "load"
             conv == convertfile(c, p)
         IN  IF conv.outcome = "raise"
             THEN [outcome |-> "raise", exc |-> conv.exc, units |-> <<>>,
                   owner |-> owner]
             ELSE [outcome |-> "return", exc |-> "",
                   units |-> load_units(conv.units), owner |-> owner]

\* The file object after load: load never closes it. One that load opened is
\* left to the garbage collector, which may or may not have finalized it by the
\* time load is over; the caller's stays open.
handle_after(owner, finalized) ==
    CASE owner = "none" -> NoHandle
      [] owner = "caller" -> [owner |-> "caller", open |-> TRUE]
      [] owner = "load" -> [owner |-> "load", open |-> ~finalized]

load ==
    \E storefile \in StoreFiles, finalized \in BOOLEAN :
        LET r == load_result(cls, storefile, parsed)
        IN  /\ store' = IF r.outcome = "return"
                        THEN [loaded |-> TRUE, units |-> r.units]
                        ELSE store
            /\ handle' = handle_after(r.owner, finalized)
            /\ last' = [op |-> "load", arg |-> storefile, outcome |-> r.outcome,
                        value |-> IF r.outcome = "return" THEN "store" ELSE r.exc,
                        loads |-> 1, reports |-> 0, before |-> store.units]
            /\ UNCHANGED <<cls, parsed>>
            /\ UNCHANGED not_load

\* A mutant of is_valid_base_for_new: the handler reports nothing and lets the
\* error of the trial load through.
is_valid_result_uncaught(c, base, p) ==
    IF base \in {"None", ""}
    THEN [outcome |-> "return", value |-> "False", loads |-> 0, reports |-> 0,
          owner |-> "none"]
    ELSE LET r == load_result(c, base, p)
         IN  IF r.outcome = "return"
             THEN [outcome |-> "return", value |-> "True", loads |-> 1,
                   reports |-> 0, owner |-> r.owner]
             ELSE [outcome |-> "raise", value |-> r.exc, loads |-> 1,
                   reports |-> 0, owner |-> r.owner]

\* is_valid_base_for_new(base, monolingual) as a function of its inputs: an empty
\* base is refused before any load; otherwise one trial load, whose error is
\* reported and turned into False.
is_valid_result(c, base, p) ==
    IF base \in {"None", ""}
    THEN [outcome |-> "return", value |-> "False", loads |-> 0, reports |-> 0,
          owner |-> "none"]
    ELSE LET r == load_result(c, base, p)
         IN  IF r.outcome = "return"
             THEN [outcome |-> "return", value |-> "True", loads |-> 1,
                   reports |-> 0, owner |-> r.owner]
             ELSE [outcome |-> "return", value |-> "False", loads |-> 1,
                   reports |-> 1, owner |-> r.owner]

\* The bases a caller passes: None, the empty string, or anything load accepts.
Bases == {"None", ""} \cup StoreFiles

is_valid_base_for_new ==
    \E base \in Bases, monolingual \in BOOLEAN, finalized \in BOOLEAN :
        LET r == is_valid_result(cls, base, parsed)
        IN  /\ handle' = handle_after(r.owner, finalized)
            /\ last' = [op |-> "is_valid_base_for_new", arg |-> base,
                        outcome |-> r.outcome, value |-> r.value,
                        loads |-> r.loads, reports |-> r.reports,
                        before |-> store.units]
            /\ UNCHANGED <<cls, parsed, store>>
            /\ UNCHANGED not_load

\* A mutant of add_unit: the unit is appended to the store.
add_unit_appends(units, ttkit_unit) ==
    [outcome |-> "return", value |-> "None", units |-> Append(units, ttkit_unit)]

\* add_unit(ttkit_unit): raises, the units are not touched.
add_unit_result(units, ttkit_unit) ==
    [outcome |-> "raise", value |-> "ValueError", units |-> units]

\* create_unit(key, source): raises, the units are not touched.
create_unit_result(units, key, source) ==
    [outcome |-> "raise", value |-> "ValueError", units |-> units]

add_unit ==
    \E ttkit_unit \in Units :
        LET r == add_unit_result(store.units, ttkit_unit)
        IN  /\ store' = [store EXCEPT !.units = r.units]
            /\ last' = [op |-> "add_unit", arg |-> ttkit_unit.source,
                        outcome |-> r.outcome, value |-> r.value,
                        loads |-> 0, reports |-> 0, before |-> store.units]
            /\ UNCHANGED <<cls, parsed, handle>>
            /\ UNCHANGED not_load

Keys == {"k1", "k2"}

create_unit ==
    \E key \in Keys, source \in Sources :
        LET r == create_unit_result(store.units, key, source)
        IN  /\ store' = [store EXCEPT !.units = r.units]
            /\ last' = [op |-> "create_unit", arg |-> key,
                        outcome |-> r.outcome, value |-> r.value,
                        loads |-> 0, reports |-> 0, before |-> store.units]
            /\ UNCHANGED <<cls, parsed, handle>>
            /\ UNCHANGED not_load

NoCall == [op |-> "init", arg |-> "", outcome |-> "return", value |-> "None",
           loads |-> 0, reports |-> 0, before |-> <<>>]

\* No file of the save machinery exists and no save runs.
SaveIdle ==
    /\ dest = NoFile
    /\ temp = NoFile
    /\ output = <<>>
    /\ sv_handle = "none"
    /\ sv_before = NoFile
    /\ sv_pc = "idle"

Paths == {"p1", "p2"}

NoNewCall == [op |-> "init", filename |-> "", language |-> "", base |-> "",
              outcome |-> "return", value |-> "None"]

\* No create_new_file has been called on an empty disk.
NewIdle ==
    /\ fs = [p \in Paths |-> NoFile]
    /\ fs_before = fs
    /\ nw_last = NoNewCall

NoRcFile == [loaded |-> FALSE, lang |-> "None", sublang |-> "None"]
NoTags == [lang |-> "", sublang |-> ""]

\* No RC file has been converted or saved.
RcIdle ==
    /\ rc_file = NoRcFile
    /\ rc_text = <<>>
    /\ rc_tags = NoTags
    /\ rc_writes = <<>>
    /\ rc_pc = "idle"

NoAccess == [accessed |-> FALSE, outcome |-> "return", value |-> <<>>]

\* A unit with no locations whose context was never read.
CtxIdle ==
    /\ unit_class = "ConvertUnit"
    /\ locations = <<>>
    /\ ctx = NoAccess

NoIdmlStore == [loaded |-> FALSE, units |-> <<>>]

\* An empty IDML package that was never loaded.
IdmlIdle ==
    /\ stories = <<>>
    /\ idml_store = NoIdmlStore

\* The state before any load, with nothing else going on.
LoadIdle ==
    /\ cls = "HTMLFormat"
    /\ parsed = [ok |-> TRUE, units |-> <<>>]
    /\ store = NoStore
    /\ handle = NoHandle
    /\ last = NoCall

Init ==
    /\ cls \in Formats
    /\ parsed \in Parses
    /\ store = NoStore
    /\ handle = NoHandle
    /\ last = NoCall
    /\ SaveIdle
    /\ NewIdle
    /\ RcIdle
    /\ CtxIdle
    /\ IdmlIdle

Next ==
    \/ load
    \/ is_valid_base_for_new
    \/ add_unit
    \/ create_unit

Spec == Init /\ [][Next]_vars

\* --------------------------------------------------------------------- save

\* A mutant of save: save_content is handed the destination itself, opened
\* for writing (and so truncated), instead of going through save_atomic.
save_direct ==
    /\ sv_pc # "writing"
    /\ sv_before' = dest
    /\ dest' = [exists |-> TRUE, bytes |-> <<>>]
    /\ sv_handle' = "dest"
    /\ sv_pc' = "writing"
    /\ UNCHANGED <<temp, output>>
    /\ UNCHANGED not_save

\* save(): save_atomic(self.storefile, self.save_content). save_atomic starts
\* by creating an empty temporary file beside the destination and hands its
\* handle to the callback.
save ==
    /\ sv_pc # "writing"
    /\ sv_before' = dest
    /\ temp' = [exists |-> TRUE, bytes |-> <<>>]
    /\ sv_handle' = "temp"
    /\ sv_pc' = "writing"
    /\ UNCHANGED <<dest, output>>
    /\ UNCHANGED not_save

\* save_content(handle): one handle.write of the next byte of the output.
save_content_write ==
    /\ sv_pc = "writing"
    /\ LET f == IF sv_handle = "temp" THEN temp ELSE dest
           n == Len(f.bytes)
       IN  /\ n < Len(output)
           /\ IF sv_handle = "temp"
              THEN /\ temp' = [temp EXCEPT !.bytes = Append(f.bytes, output[n + 1])]
                   /\ UNCHANGED dest
              ELSE /\ dest' = [dest EXCEPT !.bytes = Append(f.bytes, output[n + 1])]
                   /\ UNCHANGED temp
    /\ UNCHANGED <<output, sv_handle, sv_before, sv_pc>>
    /\ UNCHANGED not_save

\* save_content raises (no template, a merge error, a failed write) at any
\* point of its work: save_atomic discards the temporary file and the error
\* leaves save.
save_content_raise ==
    /\ sv_pc = "writing"
    /\ temp' = NoFile
    /\ sv_handle' = "none"
    /\ sv_pc' = "failed"
    /\ UNCHANGED <<dest, output, sv_before>>
    /\ UNCHANGED not_save

\* save_content has returned: save_atomic closes the temporary file and
\* renames it over the destination in one step.
save_replace ==
    /\ sv_pc = "writing"
    /\ sv_handle = "temp"
    /\ temp.bytes = output
    /\ dest' = [exists |-> TRUE, bytes |-> temp.bytes]
    /\ temp' = NoFile
    /\ sv_handle' = "none"
    /\ sv_pc' = "done"
    /\ UNCHANGED <<output, sv_before>>
    /\ UNCHANGED not_save

\* The store is edited between saves: save_content will produce other bytes.
edit_store ==
    /\ sv_pc # "writing"
    /\ output' \in ByteSeqs
    /\ sv_pc' = "idle"
    /\ UNCHANGED <<dest, temp, sv_handle, sv_before>>
    /\ UNCHANGED not_save

\* The rename over the destination fails: save_atomic discards the temporary
\* file and the error leaves save.
save_replace_raise ==
    /\ sv_pc = "writing"
    /\ sv_handle = "temp"
    /\ temp.bytes = output
    /\ temp' = NoFile
    /\ sv_handle' = "none"
    /\ sv_pc' = "failed"
    /\ UNCHANGED <<dest, output, sv_before>>
    /\ UNCHANGED not_save

InitSave ==
    /\ LoadIdle
    /\ NewIdle
    /\ RcIdle
    /\ CtxIdle
    /\ IdmlIdle
    /\ dest \in Files
    /\ temp = NoFile
    /\ output \in ByteSeqs
    /\ sv_handle = "none"
    /\ sv_before = dest
    /\ sv_pc = "idle"

NextSave ==
    \/ save
    \/ save_content_write
    \/ save_content_raise
    \/ save_replace
    \/ save_replace_raise
    \/ edit_store

SpecSave == InitSave /\ [][NextSave]_vars

\* ---------------------------------------------------------- create_new_file

Languages == {"cs", "de"}
NewBases == {"None", ""} \cup Paths

\* shutil.copy(base, filename) on the files f: a missing base and a copy of a
\* file onto itself raise and change nothing, otherwise filename gets the
\* bytes of base.
shutil_copy(f, src, dst) ==
    IF ~f[src].exists
    THEN [outcome |-> "raise", value |-> "FileNotFoundError", fs |-> f]
    ELSE IF src = dst
    THEN [outcome |-> "raise", value |-> "SameFileError", fs |-> f]
    ELSE [outcome |-> "return", value |-> "None",
          fs |-> [f EXCEPT ![dst] = f[src]]]

\* A mutant of create_new_file: the arguments of the copy are swapped.
create_new_file_swapped(f, filename, language, base) ==
    IF base \in {"None", ""}
    THEN [outcome |-> "raise", value |-> "ValueError", fs |-> f]
    ELSE shutil_copy(f, filename, base)

\* create_new_file(filename, language, base) on the files f.
create_new_file_result(f, filename, language, base) ==
    IF base \in {"None", ""}
    THEN [outcome |-> "raise", value |-> "ValueError", fs |-> f]
    ELSE shutil_copy(f, base, filename)

create_new_file ==
    \E filename \in Paths, language \in Languages, base \in NewBases :
        LET r == create_new_file_result(fs, filename, language, base)
        IN  /\ fs' = r.fs
            /\ fs_before' = fs
            /\ nw_last' = [op |-> "create_new_file", filename |-> filename,
                           language |-> language, base |-> base,
                           outcome |-> r.outcome, value |-> r.value]
            /\ UNCHANGED not_new

InitNew ==
    /\ LoadIdle
    /\ SaveIdle
    /\ RcIdle
    /\ CtxIdle
    /\ IdmlIdle
    /\ fs \in [Paths -> Files]
    /\ fs_before = fs
    /\ nw_last = NoNewCall

NextNew ==
    \/ create_new_file

SpecNew == InitNew /\ [][NextNew]_vars

\* ---------------------------------------------------------- WindowsRCFormat

\* What rcfile.lang and rcfile.sublang can hold: None, an empty string, a tag.
RcLangs == {"None", "", "LANG_CZECH"}
RcSublangs == {"None", "", "SUBLANG_NEUTRAL"}

\* Python truth of an attribute value.
Truthy(v) == v \notin {"None", ""}

\* Characters (code points) of the serialized text: A, U+0081, e acute, the
\* euro sign, a CJK ideograph, an emoji outside the basic plane.
Chars == {65, 129, 233, 8364, 20013, 128512}
Texts == UNION {[1..n -> Chars] : n \in 0..MaxTextLen}

\* The cp1252 codec's characters outside Latin-1, with their bytes.
Cp1252High ==
    (8364 :> 128) @@ (8218 :> 130) @@ (402 :> 131) @@ (8222 :> 132) @@
    (8230 :> 133) @@ (8224 :> 134) @@ (8225 :> 135) @@ (710 :> 136) @@
    (8240 :> 137) @@ (352 :> 138) @@ (8249 :> 139) @@ (338 :> 140) @@
    (381 :> 142) @@ (8216 :> 145) @@ (8217 :> 146) @@ (8220 :> 147) @@
    (8221 :> 148) @@ (8226 :> 149) @@ (8211 :> 150) @@ (8212 :> 151) @@
    (732 :> 152) @@ (8482 :> 153) @@ (353 :> 154) @@ (8250 :> 155) @@
    (339 :> 156) @@ (382 :> 158) @@ (376 :> 159)

\* c.encode("cp1252") of one character: its byte, or -1 for UnicodeEncodeError.
cp1252_byte(c) ==
    IF c < 128 \/ (c >= 160 /\ c <= 255) THEN c
    ELSE IF c \in DOMAIN Cp1252High THEN Cp1252High[c]
    ELSE -1

\* text.encode("cp1252"): all the bytes, or the error.
encode_cp1252(text) ==
    IF \E i \in DOMAIN text : cp1252_byte(text[i]) = -1
    THEN [ok |-> FALSE, bytes |-> <<>>]
    ELSE [ok |-> TRUE, bytes |-> [i \in DOMAIN text |-> cp1252_byte(text[i])]]

\* c.encode("utf-16-le") of one character: two bytes, or a surrogate pair.
utf16le_char(c) ==
    IF c < 65536
    THEN <<c % 256, c \div 256>>
    ELSE LET v == c - 65536
             hi == 55296 + (v \div 1024)
             lo == 56320 + (v % 1024)
         IN  <<hi % 256, hi \div 256, lo % 256, lo \div 256>>

RECURSIVE encode_utf16le(_)
\* text.encode("utf-16-le").
encode_utf16le(text) ==
    IF text = <<>> THEN <<>>
    ELSE utf16le_char(Head(text)) \o encode_utf16le(Tail(text))

\* codecs.BOM_UTF16_LE
BOM_UTF16_LE == <<255, 254>>

\* The longest prefix of text that cp1252 can encode, encoded.
RECURSIVE cp1252_prefix(_)
cp1252_prefix(text) ==
    IF text = <<>> \/ cp1252_byte(Head(text)) = -1 THEN <<>>
    ELSE <<cp1252_byte(Head(text))>> \o cp1252_prefix(Tail(text))

\* A mutant of the encoding: the text is encoded while it is written, so the
\* bytes before the first character cp1252 lacks reach the handle.
rc_writes_for_streaming(text) ==
    LET enc == encode_cp1252(text)
    IN  IF enc.ok THEN <<enc.bytes>>
        ELSE <<cp1252_prefix(text), BOM_UTF16_LE, encode_utf16le(text)>>

\* The writes of save_content for the serialized text: the whole text is
\* encoded before the one write of the try block; on UnicodeEncodeError the
\* BOM and then the UTF-16 bytes are written.
rc_writes_for(text) ==
    LET enc == encode_cp1252(text)
    IN  IF enc.ok THEN <<enc.bytes>>
        ELSE <<BOM_UTF16_LE, encode_utf16le(text)>>

\* A mutant of the language tags: the sublanguage of the parsed file is
\* taken whether or not the file has a language.
rc_language_tags_flat(rcfile) ==
    [lang |-> IF Truthy(rcfile.lang) THEN rcfile.lang ELSE "LANG_ENGLISH",
     sublang |-> IF Truthy(rcfile.sublang) THEN rcfile.sublang
                 ELSE "SUBLANG_DEFAULT"]

\* The language tags save_content passes to rerc.
rc_language_tags(rcfile) ==
    IF Truthy(rcfile.lang)
    THEN [lang |-> rcfile.lang,
          sublang |-> IF Truthy(rcfile.sublang) THEN rcfile.sublang
                      ELSE "SUBLANG_DEFAULT"]
    ELSE [lang |-> "LANG_ENGLISH", sublang |-> "SUBLANG_DEFAULT"]

\* WindowsRCFormat.convertfile: the parsed input is kept as store.rcfile.
rc_convertfile ==
    \E lang \in RcLangs, sublang \in RcSublangs :
        /\ rc_file' = [loaded |-> TRUE, lang |-> lang, sublang |-> sublang]
        /\ rc_text' = <<>>
        /\ rc_tags' = NoTags
        /\ rc_writes' = <<>>
        /\ rc_pc' = "loaded"
        /\ UNCHANGED not_rc

\* WindowsRCFormat.save_content(handle) on a fresh handle: the template is
\* opened (or the call ends there), rerc serializes the store to a text and
\* the text is encoded and written.
rc_save_content ==
    /\ rc_file.loaded
    /\ \E template_exists \in BOOLEAN, text \in Texts :
        /\ rc_tags' = rc_language_tags(rc_file)
        /\ IF template_exists
           THEN /\ rc_text' = text
                /\ rc_writes' = rc_writes_for(text)
                /\ rc_pc' = "saved"
           ELSE /\ rc_text' = <<>>
                /\ rc_writes' = <<>>
                /\ rc_pc' = "failed"
    /\ UNCHANGED rc_file
    /\ UNCHANGED not_rc

InitRC ==
    /\ LoadIdle
    /\ SaveIdle
    /\ NewIdle
    /\ CtxIdle
    /\ IdmlIdle
    /\ RcIdle

NextRC ==
    \/ rc_convertfile
    \/ rc_save_content

SpecRC == InitRC /\ [][NextRC]_vars

\* ------------------------------------------------------------ unit adapters

UnitClasses == {"ConvertUnit", "FileNameUnit"}

\* Location strings, as sequences of characters.
LocChars == {"a", "/"}
LocStrings == UNION {[1..n -> LocChars] : n \in 0..MaxLocLen}
LocationLists == UNION {[1..n -> LocStrings] : n \in 0..MaxLocations}

\* The positions of "/" in s.
Slashes(s) == {i \in DOMAIN s : s[i] = "/"}

Max(S) == CHOOSE x \in S : \A y \in S : y <= x

\* s.rsplit("/", 1): the string split at its last "/", or the string alone.
rsplit(s) ==
    IF Slashes(s) = {} THEN <<s>>
    ELSE LET k == Max(Slashes(s))
         IN  <<SubSeq(s, 1, k - 1), SubSeq(s, k + 1, Len(s))>>

RECURSIVE join(_)
\* "".join(parts)
join(parts) ==
    IF parts = <<>> THEN <<>> ELSE Head(parts) \o join(Tail(parts))

\* ConvertUnit.context: the locations joined.
convert_unit_context(locs) ==
    [accessed |-> TRUE, outcome |-> "return", value |-> join(locs)]

\* FileNameUnit.context: element [1] of every split joined; a split with a
\* single element has no element [1] and indexing it raises IndexError.
file_name_unit_context(locs) ==
    IF \E i \in DOMAIN locs : Len(rsplit(locs[i])) < 2
    THEN [accessed |-> TRUE, outcome |-> "raise", value |-> <<>>]
    ELSE [accessed |-> TRUE, outcome |-> "return",
          value |-> join([i \in DOMAIN locs |-> rsplit(locs[i])[2]])]

\* unit.context is read: a cached_property computes on the first read that
\* returns and then keeps the value.
context ==
    /\ ctx' = IF ctx.accessed /\ ctx.outcome = "return" THEN ctx
              ELSE IF unit_class = "FileNameUnit"
              THEN file_name_unit_context(locations)
              ELSE convert_unit_context(locations)
    /\ UNCHANGED <<unit_class, locations>>
    /\ UNCHANGED not_ctx

InitCtx ==
    /\ LoadIdle
    /\ SaveIdle
    /\ NewIdle
    /\ RcIdle
    /\ IdmlIdle
    /\ unit_class \in UnitClasses
    /\ locations \in LocationLists
    /\ ctx = NoAccess

NextCtx ==
    \/ context

SpecCtx == InitCtx /\ [][NextCtx]_vars

\* --------------------------------------------------------------- IDMLFormat

\* A package: for each story entry, in order, the number of units it holds.
Packages == UNION {[1..n -> 0..MaxStoryUnits] : n \in 0..MaxStories}

\* IdMaker(): a fresh allocator.
IdMaker == [max_id |-> 0]

\* The units of one story added to the store: each takes the next identifier
\* of the allocator it is given.
story_units(filename, count, id_maker) ==
    [j \in 1..count |-> [id |-> id_maker.max_id + j - 1,
                         filename |-> filename, local |-> j]]

RECURSIVE build_stories(_, _, _, _)
\* The loop of IDMLFormat.convertfile from story k on, with the one allocator
\* passed to every story.
build_stories(pkg, k, id_maker, units) ==
    IF k > Len(pkg) THEN units
    ELSE build_stories(pkg, k + 1,
                       [max_id |-> id_maker.max_id + pkg[k]],
                       units \o story_units(k, pkg[k], id_maker))

RECURSIVE build_stories_own_ids(_, _, _, _)
\* A mutant of the loop: the allocator is created inside it, once per story.
build_stories_own_ids(pkg, k, id_maker, units) ==
    IF k > Len(pkg) THEN units
    ELSE build_stories_own_ids(pkg, k + 1, IdMaker,
                               units \o story_units(k, pkg[k], IdMaker))

\* A mutant of convertfile, using the loop above.
idml_convertfile_own_ids(pkg) ==
    build_stories_own_ids(pkg, 1, IdMaker, <<>>)

\* IDMLFormat.convertfile: a new store, a new allocator, then the loop.
idml_convertfile(pkg) ==
    build_stories(pkg, 1, IdMaker, <<>>)

\* An IDML package is loaded.
idml_load ==
    /\ idml_store' = [loaded |-> TRUE, units |-> idml_convertfile(stories)]
    /\ UNCHANGED stories
    /\ UNCHANGED not_idml

\* The package on disk is replaced by another one.
idml_replace ==
    /\ stories' \in Packages
    /\ UNCHANGED idml_store
    /\ UNCHANGED not_idml

InitIdml ==
    /\ LoadIdle
    /\ SaveIdle
    /\ NewIdle
    /\ RcIdle
    /\ CtxIdle
    /\ stories \in Packages
    /\ idml_store = NoIdmlStore

NextIdml ==
    \/ idml_load
    \/ idml_replace

SpecIdml == InitIdml /\ [][NextIdml]_vars

\* ------------------------------------------------------------------ claims

\* C1: when load returns a store, every unit that is no header has
\* target = source and rich_target = rich_source, every header unit is as the
\* converter gave it, and the units are the converter's, in number and order.
C1_LoadFillsTargets ==
    (last.op = "load" /\ last.outcome = "return") =>
        /\ store.loaded
        /\ Len(store.units) = Len(parsed.units)
        /\ \A i \in 1..Len(parsed.units) :
            /\ store.units[i].source = parsed.units[i].source
            /\ store.units[i].rich_source = parsed.units[i].rich_source
            /\ store.units[i].header = parsed.units[i].header
            /\ IF parsed.units[i].header
               THEN /\ store.units[i].target = parsed.units[i].target
                    /\ store.units[i].rich_target = parsed.units[i].rich_target
               ELSE /\ store.units[i].target = store.units[i].source
                    /\ store.units[i].rich_target = store.units[i].rich_source

\* A load returned a store holding a header unit followed by a content unit.
C1_Witness ==
    /\ last.op = "load"
    /\ last.outcome = "return"
    /\ Len(store.units) = 2
    /\ store.units[1].header
    /\ ~store.units[2].header
    /\ store.units[2].target = "b"

\* The trial load of base completes exactly in these cases.
LoadCompletes(c, base, p) ==
    /\ base \in {"path", "handle"}
    /\ c # "ConvertFormat"
    /\ p.ok

\* C4: is_valid_base_for_new never raises; an empty base gives False without a
\* load; otherwise it gives True exactly when the one trial load completes, and
\* a failed trial load is reported exactly once.
C4_ValidBaseNeverRaises ==
    (last.op = "is_valid_base_for_new") =>
        /\ last.outcome = "return"
        /\ last.value \in {"True", "False"}
        /\ IF last.arg \in {"None", ""}
           THEN last.value = "False" /\ last.loads = 0 /\ last.reports = 0
           ELSE /\ last.loads = 1
                /\ (last.value = "True") <=> LoadCompletes(cls, last.arg, parsed)
                /\ last.reports = IF LoadCompletes(cls, last.arg, parsed)
                                  THEN 0 ELSE 1

\* A trial load of an existing but unparsable base failed and was reported.
C4_Witness ==
    /\ last.op = "is_valid_base_for_new"
    /\ last.arg = "path"
    /\ cls # "ConvertFormat"
    /\ ~parsed.ok
    /\ last.value = "False"
    /\ last.reports = 1

\* C5: for each of the five classes add_unit and create_unit are the base
\* class's, they raise ValueError whatever they are given, and the units of the
\* store stay the ones the last load fixed.
C5_NoUnitInsertion ==
    /\ \A c \in Formats : /\ Resolve(c, "add_unit") = "ConvertFormat"
                          /\ Resolve(c, "create_unit") = "ConvertFormat"
    /\ (last.op \in {"add_unit", "create_unit"}) =>
        /\ last.outcome = "raise"
        /\ last.value = "ValueError"
        /\ store.units = last.before

\* add_unit was called on a loaded store that holds units.
C5_Witness ==
    /\ last.op = "add_unit"
    /\ store.loaded
    /\ Len(store.units) = 2
    /\ cls = "IDMLFormat"

\* While a save runs the destination is as it was; after a failed save it is
\* as it was and no temporary file is left; after a save that went through the
\* destination holds the whole output and no temporary file is left.
C2_States ==
    /\ (sv_pc = "writing") => dest = sv_before
    /\ (sv_pc = "failed") => (dest = sv_before /\ temp = NoFile)
    /\ (sv_pc = "done") => (dest = [exists |-> TRUE, bytes |-> output]
                            /\ temp = NoFile)

\* C2: save never exposes a partly written destination: a failure of
\* save_content leaves the destination as it was before save and removes the
\* temporary file, and the destination changes only in the one step that puts
\* the completely written output in its place.
C2_SaveAtomic ==
    /\ []C2_States
    /\ [][dest' # dest =>
            /\ sv_pc = "writing"
            /\ temp = [exists |-> TRUE, bytes |-> output]
            /\ dest' = [exists |-> TRUE, bytes |-> output]
            /\ sv_pc' = "done"]_vars

\* save_content failed after it had written part of the output, over a
\* destination that held other bytes.
C2_Witness ==
    /\ sv_pc = "failed"
    /\ Len(output) = 2
    /\ dest.exists
    /\ dest.bytes # output
    /\ dest.bytes # <<>>

\* C3: create_new_file with no base (None or empty) raises ValueError and
\* leaves every file as it was; with a base that exists the file at filename
\* ends with the bytes of base and base is as it was; with a base that names
\* no file nothing changes. Nothing of this depends on the language.
C3_CreateNewFile ==
    (nw_last.op = "create_new_file") =>
        IF nw_last.base \in {"None", ""}
        THEN /\ nw_last.outcome = "raise"
             /\ nw_last.value = "ValueError"
             /\ fs = fs_before
        ELSE IF fs_before[nw_last.base].exists
        THEN /\ fs[nw_last.filename] = fs_before[nw_last.base]
             /\ fs[nw_last.base] = fs_before[nw_last.base]
             /\ \A p \in Paths \ {nw_last.filename} : fs[p] = fs_before[p]
        ELSE /\ nw_last.outcome = "raise"
             /\ fs = fs_before

\* A base that exists was copied over a file that held other bytes.
C3_Witness ==
    /\ nw_last.op = "create_new_file"
    /\ nw_last.base = "p2"
    /\ nw_last.filename = "p1"
    /\ nw_last.language = "de"
    /\ fs_before["p2"].exists
    /\ fs_before["p1"].exists
    /\ fs_before["p1"] # fs_before["p2"]
    /\ nw_last.outcome = "return"

\* All the bytes written to a handle, in order.
RECURSIVE Written(_)
Written(writes) ==
    IF writes = <<>> THEN <<>> ELSE Head(writes) \o Written(Tail(writes))

\* The characters Windows-1252 has: ASCII, Latin-1 from U+00A0, and the 27
\* characters of its 0x80-0x9F block.
InWindows1252(c) ==
    \/ c \in 0..127
    \/ c \in 160..255
    \/ c \in DOMAIN Cp1252High

\* C6: the bytes save_content writes for the text T are the Windows-1252
\* bytes of T and no BOM when Windows-1252 has every character of T, and
\* otherwise FF FE followed by the UTF-16LE bytes of the whole of T, with
\* nothing written before the BOM.
C6_RcEncoding ==
    (rc_pc = "saved") =>
        IF \A i \in DOMAIN rc_text : InWindows1252(rc_text[i])
        THEN /\ Written(rc_writes) = [i \in DOMAIN rc_text |->
                                         cp1252_byte(rc_text[i])]
             /\ Len(Written(rc_writes)) = Len(rc_text)
        ELSE /\ Written(rc_writes) = <<255, 254>> \o encode_utf16le(rc_text)
             /\ rc_writes[1] = <<255, 254>>

\* A text whose first character Windows-1252 has and whose second it lacks
\* was written as UTF-16.
C6_Witness ==
    /\ rc_pc = "saved"
    /\ rc_text = <<8364, 20013>>
    /\ Written(rc_writes) = <<255, 254, 172, 32, 45, 78>>

\* C10: the tags save_content uses are LANG_ENGLISH / SUBLANG_DEFAULT when the
\* parsed file has no language (whatever its sublanguage), its language and
\* sublanguage when it has both, and its language with SUBLANG_DEFAULT when it
\* has no sublanguage.
C10_RcLanguageTags ==
    (rc_pc \in {"saved", "failed"}) =>
        /\ (~Truthy(rc_file.lang)) =>
              rc_tags = [lang |-> "LANG_ENGLISH", sublang |-> "SUBLANG_DEFAULT"]
        /\ (Truthy(rc_file.lang) /\ Truthy(rc_file.sublang)) =>
              rc_tags = [lang |-> rc_file.lang, sublang |-> rc_file.sublang]
        /\ (Truthy(rc_file.lang) /\ ~Truthy(rc_file.sublang)) =>
              rc_tags = [lang |-> rc_file.lang, sublang |-> "SUBLANG_DEFAULT"]

\* A file with a sublanguage and no language was saved.
C10_Witness ==
    /\ rc_pc = "saved"
    /\ rc_file.lang = "None"
    /\ rc_file.sublang = "SUBLANG_NEUTRAL"
    /\ rc_tags.sublang = "SUBLANG_DEFAULT"

\* The part of a location after its last "/", the whole location if it has none.
AfterLastSlash(s) ==
    IF Slashes(s) = {} THEN s ELSE SubSeq(s, Max(Slashes(s)) + 1, Len(s))

\* C7: FileNameUnit.context is the parts after the last "/" of the locations,
\* joined in order, a location with no "/" giving the whole of itself, and
\* reading it does not raise.
C7_FileNameContext ==
    (ctx.accessed /\ unit_class = "FileNameUnit") =>
        /\ ctx.outcome = "return"
        /\ ctx.value = join([i \in DOMAIN locations |->
                                AfterLastSlash(locations[i])])

\* C9: the units of a loaded IDML store have pairwise distinct identifiers,
\* given out by one allocator that starts anew with the load and serves the
\* stories in their order: the identifiers count up along the store, and the
\* units are those of the stories, story by story.
C9_IdmlDistinctIds ==
    idml_store.loaded =>
        LET u == idml_store.units
        IN  /\ \A i, j \in DOMAIN u : i # j => u[i].id # u[j].id
            /\ \A i \in DOMAIN u : u[i].id = i - 1
            /\ \A i, j \in DOMAIN u :
                  i < j => \/ u[i].filename < u[j].filename
                           \/ /\ u[i].filename = u[j].filename
                              /\ u[i].local < u[j].local

\* Two stories each hold a unit with local index 1, and both units are in the
\* loaded store.
C9_Witness ==
    /\ idml_store.loaded
    /\ Len(stories) = 2
    /\ stories[1] >= 1
    /\ stories[2] >= 1
    /\ \E i, j \in DOMAIN idml_store.units :
          /\ idml_store.units[i].filename = 1
          /\ idml_store.units[j].filename = 2
          /\ idml_store.units[i].local = 1
          /\ idml_store.units[j].local = 1

\* C8: a file object that load opened itself is closed when load is over,
\* whether it returned or raised; a file object of the caller is left open.
C8_LoadReleasesHandle ==
    (last.op = "load") =>
        /\ (handle.owner = "load" => ~handle.open)
        /\ (handle.owner = "caller" => handle.open)

====
